---- MODULE Spec2Model ----
(***************************************************************************)
(* serverSessionMedia (src/server_session_media.go): the per-media         *)
(* transport of one RTSP server session.  The model holds one session with *)
(* its media transports, the session's write queue and its single worker,  *)
(* the two shared UDP listeners, the session's TCP channel dispatcher and  *)
(* the per-format components.                                              *)
(*                                                                         *)
(* Collaborators that live outside src/ (the write queue, the listeners,   *)
(* serverSessionFormat, the RTP/RTCP codecs) are modelled by their         *)
(* interface as the specification describes it.                            *)
(***************************************************************************)
EXTENDS Integers, Sequences, FiniteSets, TLC

\* ------------------------------------------------------------------ bounds
\* application calls of writePacketRTP / writePacketRTCP in one behaviour
MaxWrites == 2
\* datagrams / interleaved frames delivered to read callbacks in one behaviour
MaxIn == 2
\* capacity of the session's write queue (ss.writer)
WriteQueueSize == 1

\* ------------------------------------------------- configuration of the run
\* size ceiling of a UDP payload, reused for TCP RTCP frames
udpMaxPayloadSize == 1472
\* ss.s.MaxPacketSize
MaxPacketSize == 1472

\* the media transports of the session (ss.setuppedMedias)
Medias == {1, 2}
\* payload types of medi.Formats
MediaFormats(m) == IF m = 1 THEN {96, 97} ELSE {0}
\* negotiated per-media values (set by the session's SETUP handling)
tcpChannel(m) == 2 * (m - 1)
udpRTPReadPort(m) == 10 * m
udpRTCPReadPort(m) == 10 * m + 1
ClientIP == "client"
udpRTPWriteAddr(m) == <<ClientIP, 10 * m>>
udpRTCPWriteAddr(m) == <<ClientIP, 10 * m + 1>>
\* a client of another session, registered with both shared listeners
ForeignKey == <<"other", 10>>
Keys == {<<ClientIP, p>> : p \in {10, 11, 20, 21}} \cup {ForeignKey}

\* a callback slot: None, another session's callback, or a method of media m
None == [m |-> 0, fn |-> "none"]
Foreign == [m |-> 0, fn |-> "foreign"]
Callback(m, fn) == [m |-> m, fn |-> fn]

\* serialized packets handed to the write operations
AppRTPPayloads == {[len |-> 2, body |-> "app"]}
AppRTCPPayloads == {[len |-> 3, body |-> "app"]}
\* ss.WritePacketRTP marshals rtp.Packet{Header{Version: 2}}: a 12-byte header
EmptyRTP == [len |-> 12, body |-> "emptyRTP"]
\* ss.WritePacketRTCP marshals rtcp.ReceiverReport{}: an 8-byte report
EmptyRR == [len |-> 8, body |-> "emptyRR"]

VARIABLES
    ssState,                \* ss.state at start(): "Play" or "Record"
    setuppedTransport,      \* *ss.setuppedTransport
    pc,                     \* position of the session's control thread in start()/stop() of each media
    formats,                \* sm.formats: payload type -> per-format component
    writePacketRTPInQueue,  \* sm.writePacketRTPInQueue
    writePacketRTCPInQueue, \* sm.writePacketRTCPInQueue
    udpRTPListener,         \* ss.s.udpRTPListener clients: key -> callback
    udpRTCPListener,        \* ss.s.udpRTCPListener clients: key -> callback
    tcpCallbackByChannel,   \* ss.tcpCallbackByChannel
    tcpRTPFrame,            \* sm.tcpRTPFrame
    tcpRTCPFrame,           \* sm.tcpRTCPFrame
    tcpBuffer,              \* len(sm.tcpBuffer)
    writer,                 \* ss.writer: the queued tasks, oldest first
    wire,                   \* the network writes performed so far, in order
    nextId,                 \* number of write calls made so far (names the calls)
    returned,               \* the write calls made so far: what was asked, what push
                            \* answered and what the call returned
    nWrites,                \* application write calls made so far
    bytesSent,              \* *ss.bytesSent
    bytesReceived,          \* *ss.bytesReceived
    udpLastPacketTime,      \* *ss.udpLastPacketTime
    clock,                  \* ss.s.timeNow(); one tick per inbound delivery
    lastIn,                 \* the read callback that ran last, with its payload
    effects                 \* the calls that callback made, in order

vars == <<ssState, setuppedTransport, pc, formats, writePacketRTPInQueue,
          writePacketRTCPInQueue, udpRTPListener, udpRTCPListener,
          tcpCallbackByChannel, tcpRTPFrame, tcpRTCPFrame, tcpBuffer, writer,
          wire, nextId, returned, nWrites, bytesSent, bytesReceived,
          udpLastPacketTime, clock, lastIn, effects>>

configVars == <<ssState, setuppedTransport>>
wiringVars == <<writePacketRTPInQueue, writePacketRTCPInQueue, udpRTPListener,
                udpRTCPListener, tcpCallbackByChannel, tcpRTPFrame,
                tcpRTCPFrame, tcpBuffer>>
writeVars == <<writer, wire, nextId, returned, nWrites, bytesSent>>
readVars == <<bytesReceived, udpLastPacketTime, clock, lastIn, effects>>

\* ------------------------------------------------ per-format component
\* newServerSessionFormat: not started, no sender SSRC learned yet, no sender
\* report processed yet
newServerSessionFormat ==
    [started |-> FALSE,
     senderSSRC |-> [ssrc |-> 0, ok |-> FALSE],
     lastSenderReport |-> [ssrc |-> 0, ok |-> FALSE]]

\* newServerSessionMedia: formats are populated only in the pre-record state
newServerSessionMedia(state, m) ==
    IF state = "Record"
    THEN [pt \in MediaFormats(m) |-> newServerSessionFormat]
    ELSE [pt \in {} |-> newServerSessionFormat]

\* faulty variant: only one format of the media is started
formatsStartOne(fs) ==
    [pt \in DOMAIN fs |->
        [fs[pt] EXCEPT !.started = (pt = CHOOSE x \in DOMAIN fs : TRUE)]]

\* sf.start() / sf.stop() on every format of the media
formatsStart(fs) == [pt \in DOMAIN fs |-> [fs[pt] EXCEPT !.started = TRUE]]
formatsStop(fs) == [pt \in DOMAIN fs |-> [fs[pt] EXCEPT !.started = FALSE]]

\* ------------------------------------------------------------ write queue
\* ss.writer.push: accepts the task unless the bounded queue is full
pushOk(q) == Len(q) < WriteQueueSize
push(q, task) == IF pushOk(q) THEN Append(q, task) ELSE q

\* a datagram or interleaved-frame payload: its length and what the bytes decode to
Datagram(len, kind, pt, ssrc, packets) ==
    [len |-> len, kind |-> kind, PayloadType |-> pt, SSRC |-> ssrc, packets |-> packets]
NoDatagram == Datagram(0, "none", 0, 0, <<>>)

NoPayload == [len |-> 0, body |-> "none"]
NoFrame == [Channel |-> -1, Payload |-> NoPayload, set |-> FALSE]

Init ==
    /\ ssState \in {"Play", "Record"}
    /\ setuppedTransport \in {"UDP", "UDPMulticast", "TCP"}
    /\ pc = [m \in Medias |-> "created"]
    /\ formats = [m \in Medias |-> newServerSessionMedia(ssState, m)]
    /\ writePacketRTPInQueue = [m \in Medias |-> "nil"]
    /\ writePacketRTCPInQueue = [m \in Medias |-> "nil"]
    /\ udpRTPListener = [k \in Keys |-> IF k = ForeignKey THEN Foreign ELSE None]
    /\ udpRTCPListener = [k \in Keys |-> IF k = ForeignKey THEN Foreign ELSE None]
    /\ tcpCallbackByChannel = [c \in {} |-> None]
    /\ tcpRTPFrame = [m \in Medias |-> NoFrame]
    /\ tcpRTCPFrame = [m \in Medias |-> NoFrame]
    /\ tcpBuffer = [m \in Medias |-> 0]
    /\ writer = <<>>
    /\ wire = <<>>
    /\ nextId = 1
    /\ returned = <<>>
    /\ nWrites = 0
    /\ bytesSent = 0
    /\ bytesReceived = 0
    /\ udpLastPacketTime = 0
    /\ clock = 0
    /\ lastIn = [fn |-> "none", m |-> 0, payload |-> NoDatagram]
    /\ effects = <<>>

\* ------------------------------------------------------- outbound write path
\* the closure pushed by writePacketRTP / writePacketRTCP: it captures sm and
\* the payload, and reads the function field when it runs
Task(id, m, field, payload) == [id |-> id, m |-> m, field |-> field, payload |-> payload]

\* one call of a write operation, as recorded in returned
Call(m, op, payload, ok, err) == [m |-> m, op |-> op, payload |-> payload, ok |-> ok, err |-> err]

\* faulty variant: push's answer is ignored
writeResultIgnoresPush(ok) == "nil"
\* the error writePacketRTP / writePacketRTCP return for push's answer
writeResult(ok) == IF ~ok THEN "ErrServerWriteQueueFull" ELSE "nil"

\* sm.writePacketRTP(payload)
writePacketRTP(m, payload) ==
    LET ok == pushOk(writer) IN
    /\ writer' = push(writer, Task(nextId, m, "writePacketRTPInQueue", payload))
    /\ nextId' = nextId + 1
    /\ returned' = Append(returned, Call(m, "writePacketRTP", payload, ok, writeResult(ok)))

\* sm.writePacketRTCP(payload)
writePacketRTCP(m, payload) ==
    LET ok == pushOk(writer) IN
    /\ writer' = push(writer, Task(nextId, m, "writePacketRTCPInQueue", payload))
    /\ nextId' = nextId + 1
    /\ returned' = Append(returned, Call(m, "writePacketRTCP", payload, ok, writeResult(ok)))

\* one network write: which socket, where to, what, for which write call
Sent(id, m, via, to, payload) == [id |-> id, m |-> m, via |-> via, to |-> to, payload |-> payload]

\* faulty variant: the datagram is written twice
writePacketRTPInQueueUDPTwice(id, m, payload) ==
    /\ bytesSent' = bytesSent + payload.len
    /\ wire' = wire \o <<Sent(id, m, "udpRTPListener", udpRTPWriteAddr(m), payload),
                         Sent(id, m, "udpRTPListener", udpRTPWriteAddr(m), payload)>>
    /\ UNCHANGED <<tcpRTPFrame, tcpRTCPFrame>>
\* sm.writePacketRTPInQueueUDP(payload), run by the queue's worker
writePacketRTPInQueueUDP(id, m, payload) ==
    /\ bytesSent' = bytesSent + payload.len
    /\ wire' = Append(wire, Sent(id, m, "udpRTPListener", udpRTPWriteAddr(m), payload))
    /\ UNCHANGED <<tcpRTPFrame, tcpRTCPFrame>>

\* faulty variant: the byte counter is not incremented
writePacketRTCPInQueueUDPNoCount(id, m, payload) ==
    /\ wire' = Append(wire, Sent(id, m, "udpRTCPListener", udpRTCPWriteAddr(m), payload))
    /\ UNCHANGED <<bytesSent, tcpRTPFrame, tcpRTCPFrame>>
\* sm.writePacketRTCPInQueueUDP(payload)
writePacketRTCPInQueueUDP(id, m, payload) ==
    /\ bytesSent' = bytesSent + payload.len
    /\ wire' = Append(wire, Sent(id, m, "udpRTCPListener", udpRTCPWriteAddr(m), payload))
    /\ UNCHANGED <<tcpRTPFrame, tcpRTCPFrame>>

\* sm.writePacketRTPInQueueTCP(payload): the frame is reused, its payload replaced
writePacketRTPInQueueTCP(id, m, payload) ==
    /\ tcpRTPFrame[m].set
    /\ bytesSent' = bytesSent + payload.len
    /\ tcpRTPFrame' = [tcpRTPFrame EXCEPT ![m].Payload = payload]
    /\ wire' = Append(wire, Sent(id, m, "tcpConn", <<"channel", tcpRTPFrame[m].Channel>>,
                                 tcpRTPFrame'[m].Payload))
    /\ UNCHANGED tcpRTCPFrame

\* faulty variant: the RTCP payload is sent in the RTP frame
writePacketRTCPInQueueTCPInRTPFrame(id, m, payload) ==
    /\ tcpRTPFrame[m].set
    /\ bytesSent' = bytesSent + payload.len
    /\ tcpRTPFrame' = [tcpRTPFrame EXCEPT ![m].Payload = payload]
    /\ wire' = Append(wire, Sent(id, m, "tcpConn", <<"channel", tcpRTPFrame[m].Channel>>,
                                 tcpRTPFrame'[m].Payload))
    /\ UNCHANGED tcpRTCPFrame

\* sm.writePacketRTCPInQueueTCP(payload)
writePacketRTCPInQueueTCP(id, m, payload) ==
    /\ tcpRTCPFrame[m].set
    /\ bytesSent' = bytesSent + payload.len
    /\ tcpRTCPFrame' = [tcpRTCPFrame EXCEPT ![m].Payload = payload]
    /\ wire' = Append(wire, Sent(id, m, "tcpConn", <<"channel", tcpRTCPFrame[m].Channel>>,
                                 tcpRTCPFrame'[m].Payload))
    /\ UNCHANGED tcpRTPFrame

\* the body of a queued closure: call through the function field of sm
runTask(t) ==
    LET f == IF t.field = "writePacketRTPInQueue"
             THEN writePacketRTPInQueue[t.m] ELSE writePacketRTCPInQueue[t.m]
    IN  CASE f = "writePacketRTPInQueueUDP" -> writePacketRTPInQueueUDP(t.id, t.m, t.payload)
          [] f = "writePacketRTCPInQueueUDP" -> writePacketRTCPInQueueUDP(t.id, t.m, t.payload)
          [] f = "writePacketRTPInQueueTCP" -> writePacketRTPInQueueTCP(t.id, t.m, t.payload)
          [] f = "writePacketRTCPInQueueTCP" -> writePacketRTCPInQueueTCP(t.id, t.m, t.payload)
          [] OTHER -> FALSE

\* the single worker of ss.writer takes the oldest task and runs it
WriterRun ==
    /\ writer # <<>>
    /\ runTask(Head(writer))
    /\ writer' = Tail(writer)
    /\ UNCHANGED <<configVars, pc, formats, writePacketRTPInQueue, writePacketRTCPInQueue,
                   udpRTPListener, udpRTCPListener, tcpCallbackByChannel, tcpBuffer,
                   nextId, returned, nWrites, readVars>>

\* the application writes an RTP packet on a started media
WritePacketRTP(m) ==
    /\ pc[m] = "started"
    /\ nWrites < MaxWrites
    /\ \E payload \in AppRTPPayloads : writePacketRTP(m, payload)
    /\ nWrites' = nWrites + 1
    /\ UNCHANGED <<configVars, pc, formats, wiringVars, wire, bytesSent, readVars>>

\* the application writes an RTCP packet on a started media
WritePacketRTCP(m) ==
    /\ pc[m] = "started"
    /\ nWrites < MaxWrites
    /\ \E payload \in AppRTCPPayloads : writePacketRTCP(m, payload)
    /\ nWrites' = nWrites + 1
    /\ UNCHANGED <<configVars, pc, formats, wiringVars, wire, bytesSent, readVars>>

\* ------------------------------------------------------------ start / stop
\* the session starts and stops its medias one after the other on one thread
Idle == \A m \in Medias : pc[m] \in {"created", "started", "stopped"}

\* start(): for _, sf := range sm.formats { sf.start() }
StartFormats(m) ==
    /\ Idle
    /\ pc[m] = "created"
    /\ formats' = [formats EXCEPT ![m] = formatsStart(formats[m])]
    /\ pc' = [pc EXCEPT ![m] = IF setuppedTransport = "TCP" THEN "tcp" ELSE "udp"]
    /\ UNCHANGED <<configVars, wiringVars, writeVars, readVars>>

\* faulty variant: the firewall is opened in play mode too
afterSelectUDPAlwaysOpens ==
    IF setuppedTransport = "UDP" THEN "openRTP" ELSE "started"

\* where start() goes after selecting the UDP write functions
afterSelectUDP ==
    IF setuppedTransport = "UDP"
    THEN IF ssState = "Play" THEN "addRTCP" ELSE "openRTP"
    ELSE "started"

\* faulty variant: the TCP function is selected for RTCP
StartSelectUDPMixed(m) ==
    /\ pc[m] = "udp"
    /\ writePacketRTPInQueue' = [writePacketRTPInQueue EXCEPT ![m] = "writePacketRTPInQueueUDP"]
    /\ writePacketRTCPInQueue' = [writePacketRTCPInQueue EXCEPT ![m] = "writePacketRTCPInQueueTCP"]
    /\ pc' = [pc EXCEPT ![m] = afterSelectUDP]
    /\ UNCHANGED <<configVars, formats, udpRTPListener, udpRTCPListener, tcpCallbackByChannel,
                   tcpRTPFrame, tcpRTCPFrame, tcpBuffer, writeVars, readVars>>

\* start(), case TransportUDP, TransportUDPMulticast: select the write functions
StartSelectUDP(m) ==
    /\ pc[m] = "udp"
    /\ writePacketRTPInQueue' = [writePacketRTPInQueue EXCEPT ![m] = "writePacketRTPInQueueUDP"]
    /\ writePacketRTCPInQueue' = [writePacketRTCPInQueue EXCEPT ![m] = "writePacketRTCPInQueueUDP"]
    /\ pc' = [pc EXCEPT ![m] = afterSelectUDP]
    /\ UNCHANGED <<configVars, formats, udpRTPListener, udpRTCPListener, tcpCallbackByChannel,
                   tcpRTPFrame, tcpRTCPFrame, tcpBuffer, writeVars, readVars>>

\* start(), record over UDP: sm.ss.WritePacketRTP(sm.media, empty packet), error ignored
StartOpenRTP(m) ==
    /\ pc[m] = "openRTP"
    /\ writePacketRTP(m, EmptyRTP)
    /\ pc' = [pc EXCEPT ![m] = "openRTCP"]
    /\ UNCHANGED <<configVars, formats, wiringVars, wire, nWrites, bytesSent, readVars>>

\* start(), record over UDP: sm.ss.WritePacketRTCP(sm.media, empty report), error ignored
StartOpenRTCP(m) ==
    /\ pc[m] = "openRTCP"
    /\ writePacketRTCP(m, EmptyRR)
    /\ pc' = [pc EXCEPT ![m] = "addRTP"]
    /\ UNCHANGED <<configVars, formats, wiringVars, wire, nWrites, bytesSent, readVars>>

\* faulty variant: the RTP callback is registered under the RTCP read port
StartAddRTPWrongPort(m) ==
    /\ pc[m] = "addRTP"
    /\ udpRTPListener' = [udpRTPListener EXCEPT
            ![<<ClientIP, udpRTCPReadPort(m)>>] = Callback(m, "readRTPUDPRecord")]
    /\ pc' = [pc EXCEPT ![m] = "addRTCP"]
    /\ UNCHANGED <<configVars, formats, writePacketRTPInQueue, writePacketRTCPInQueue,
                   udpRTCPListener, tcpCallbackByChannel, tcpRTPFrame, tcpRTCPFrame,
                   tcpBuffer, writeVars, readVars>>

\* start(), record over UDP: udpRTPListener.addClient(ip, udpRTPReadPort, readRTPUDPRecord)
StartAddRTP(m) ==
    /\ pc[m] = "addRTP"
    /\ udpRTPListener' = [udpRTPListener EXCEPT
            ![<<ClientIP, udpRTPReadPort(m)>>] = Callback(m, "readRTPUDPRecord")]
    /\ pc' = [pc EXCEPT ![m] = "addRTCP"]
    /\ UNCHANGED <<configVars, formats, writePacketRTPInQueue, writePacketRTCPInQueue,
                   udpRTCPListener, tcpCallbackByChannel, tcpRTPFrame, tcpRTCPFrame,
                   tcpBuffer, writeVars, readVars>>

\* the RTCP read callback start() registers over UDP, by session state
udpRTCPCallback(state) == IF state = "Play" THEN "readRTCPUDPPlay" ELSE "readRTCPUDPRecord"

\* start(), UDP unicast: udpRTCPListener.addClient(ip, udpRTCPReadPort, ...)
StartAddRTCP(m) ==
    /\ pc[m] = "addRTCP"
    /\ udpRTCPListener' = [udpRTCPListener EXCEPT
            ![<<ClientIP, udpRTCPReadPort(m)>>] = Callback(m, udpRTCPCallback(ssState))]
    /\ pc' = [pc EXCEPT ![m] = "started"]
    /\ UNCHANGED <<configVars, formats, writePacketRTPInQueue, writePacketRTCPInQueue,
                   udpRTPListener, tcpCallbackByChannel, tcpRTPFrame, tcpRTCPFrame,
                   tcpBuffer, writeVars, readVars>>

\* map[c] = f on a Go map
mapSet(map, c, f) == [x \in DOMAIN map \cup {c} |-> IF x = c THEN f ELSE map[x]]

\* faulty variant: the play-mode callbacks are installed in either direction
StartTCPPlayCallbacks(m) ==
    /\ pc[m] = "tcp"
    /\ writePacketRTPInQueue' = [writePacketRTPInQueue EXCEPT ![m] = "writePacketRTPInQueueTCP"]
    /\ writePacketRTCPInQueue' = [writePacketRTCPInQueue EXCEPT ![m] = "writePacketRTCPInQueueTCP"]
    /\ tcpCallbackByChannel' =
          mapSet(mapSet(tcpCallbackByChannel, tcpChannel(m), Callback(m, "readRTPTCPPlay")),
                 tcpChannel(m) + 1, Callback(m, "readRTCPTCPPlay"))
    /\ tcpRTPFrame' = [tcpRTPFrame EXCEPT
            ![m] = [Channel |-> tcpChannel(m), Payload |-> NoPayload, set |-> TRUE]]
    /\ tcpRTCPFrame' = [tcpRTCPFrame EXCEPT
            ![m] = [Channel |-> tcpChannel(m) + 1, Payload |-> NoPayload, set |-> TRUE]]
    /\ tcpBuffer' = [tcpBuffer EXCEPT ![m] = MaxPacketSize + 4]
    /\ pc' = [pc EXCEPT ![m] = "started"]
    /\ UNCHANGED <<configVars, formats, udpRTPListener, udpRTCPListener, writeVars, readVars>>

\* start(), case TransportTCP
StartTCP(m) ==
    /\ pc[m] = "tcp"
    /\ writePacketRTPInQueue' = [writePacketRTPInQueue EXCEPT ![m] = "writePacketRTPInQueueTCP"]
    /\ writePacketRTCPInQueue' = [writePacketRTCPInQueue EXCEPT ![m] = "writePacketRTCPInQueueTCP"]
    /\ tcpCallbackByChannel' =
          IF ssState = "Play"
          THEN mapSet(mapSet(tcpCallbackByChannel, tcpChannel(m), Callback(m, "readRTPTCPPlay")),
                      tcpChannel(m) + 1, Callback(m, "readRTCPTCPPlay"))
          ELSE mapSet(mapSet(tcpCallbackByChannel, tcpChannel(m), Callback(m, "readRTPTCPRecord")),
                      tcpChannel(m) + 1, Callback(m, "readRTCPTCPRecord"))
    /\ tcpRTPFrame' = [tcpRTPFrame EXCEPT
            ![m] = [Channel |-> tcpChannel(m), Payload |-> NoPayload, set |-> TRUE]]
    /\ tcpRTCPFrame' = [tcpRTCPFrame EXCEPT
            ![m] = [Channel |-> tcpChannel(m) + 1, Payload |-> NoPayload, set |-> TRUE]]
    /\ tcpBuffer' = [tcpBuffer EXCEPT ![m] = MaxPacketSize + 4]
    /\ pc' = [pc EXCEPT ![m] = "started"]
    /\ UNCHANGED <<configVars, formats, udpRTPListener, udpRTCPListener, writeVars, readVars>>

\* udpListener.removeClient(ip, port)
removeClient(listener, ip, port) == [listener EXCEPT ![<<ip, port>>] = None]

\* faulty variant: the RTCP client is not removed
StopRemoveRTPOnly(m) ==
    /\ Idle
    /\ pc[m] = "started"
    /\ IF setuppedTransport = "UDP"
       THEN /\ udpRTPListener' = removeClient(udpRTPListener, ClientIP, udpRTPReadPort(m))
            /\ UNCHANGED udpRTCPListener
       ELSE UNCHANGED <<udpRTPListener, udpRTCPListener>>
    /\ pc' = [pc EXCEPT ![m] = "stopFormats"]
    /\ UNCHANGED <<configVars, formats, writePacketRTPInQueue, writePacketRTCPInQueue,
                   tcpCallbackByChannel, tcpRTPFrame, tcpRTCPFrame, tcpBuffer,
                   writeVars, readVars>>

\* stop(): deregister from the shared UDP listeners (unicast UDP only)
StopRemove(m) ==
    /\ Idle
    /\ pc[m] = "started"
    /\ IF setuppedTransport = "UDP"
       THEN /\ udpRTPListener' = removeClient(udpRTPListener, ClientIP, udpRTPReadPort(m))
            /\ udpRTCPListener' = removeClient(udpRTCPListener, ClientIP, udpRTCPReadPort(m))
       ELSE UNCHANGED <<udpRTPListener, udpRTCPListener>>
    /\ pc' = [pc EXCEPT ![m] = "stopFormats"]
    /\ UNCHANGED <<configVars, formats, writePacketRTPInQueue, writePacketRTCPInQueue,
                   tcpCallbackByChannel, tcpRTPFrame, tcpRTCPFrame, tcpBuffer,
                   writeVars, readVars>>

\* stop(): for _, sf := range sm.formats { sf.stop() }
StopFormats(m) ==
    /\ pc[m] = "stopFormats"
    /\ formats' = [formats EXCEPT ![m] = formatsStop(formats[m])]
    /\ pc' = [pc EXCEPT ![m] = "stopped"]
    /\ UNCHANGED <<configVars, wiringVars, writeVars, readVars>>

Lifecycle ==
    \E m \in Medias :
        \/ StartFormats(m)
        \/ StartSelectUDP(m)
        \/ StartOpenRTP(m)
        \/ StartOpenRTCP(m)
        \/ StartAddRTP(m)
        \/ StartAddRTCP(m)
        \/ StartTCP(m)
        \/ StopRemove(m)
        \/ StopFormats(m)

Writes == \E m \in Medias : WritePacketRTP(m) \/ WritePacketRTCP(m)

NextWrite == Lifecycle \/ Writes \/ WriterRun

SpecWrite == Init /\ [][NextWrite]_vars

\* --------------------------------------------------------- inbound packets
SR(ssrc) == [type |-> "SenderReport", SSRC |-> ssrc]
RR(ssrc) == [type |-> "ReceiverReport", SSRC |-> ssrc]

\* lengths the shared UDP listeners deliver (their buffer is udpMaxPayloadSize + 1 bytes)
UDPLens == {20, udpMaxPayloadSize, udpMaxPayloadSize + 1}
\* lengths of interleaved frames
TCPLens == UDPLens \cup {udpMaxPayloadSize + 2}
InPayloadTypes == {0, 96, 97}
InSSRCs == {7, 8}
InRTCPPackets == {<<SR(7)>>, <<RR(7)>>, <<SR(8), RR(8)>>, <<RR(9), SR(7)>>}

RTPPayloads(lens) ==
    {Datagram(l, "rtp", pt, ssrc, <<>>) : l \in lens, pt \in InPayloadTypes, ssrc \in InSSRCs}
    \cup {Datagram(l, "bad", 0, 0, <<>>) : l \in lens}
RTCPPayloads(lens) ==
    {Datagram(l, "rtcp", 0, 0, ps) : l \in lens, ps \in InRTCPPackets}
    \cup {Datagram(l, "bad", 0, 0, <<>>) : l \in lens}

\* pkt.Unmarshal(payload) of pion/rtp: an error, or the packet's header fields
rtpUnmarshal(payload) ==
    [err |-> payload.kind # "rtp",
     pkt |-> [PayloadType |-> payload.PayloadType, SSRC |-> payload.SSRC]]

\* rtcp.Unmarshal(payload) of pion/rtcp: an error, or the compound packet's packets
rtcpUnmarshal(payload) ==
    [err |-> payload.kind # "rtcp", packets |-> payload.packets]

\* the calls a read callback makes, as recorded in effects
Event(ev, name, format, a, b) == [ev |-> ev, name |-> name, format |-> format, a |-> a, b |-> b]
\* sm.ss.onDecodeError(err)
DecodeError(name, a, b) == Event("onDecodeError", name, -1, a, b)
\* a call of rtp / rtcp Unmarshal
Unmarshal(codec) == Event("Unmarshal", codec, -1, 0, 0)
\* forma.readRTPUDP(pkt, now) on the component of payload type format
ReadRTPUDP(format, pkt, now) == Event("readRTPUDP", "", format, pkt.SSRC, now)
\* forma.readRTPTCP(pkt)
ReadRTPTCP(format, pkt) == Event("readRTPTCP", "", format, pkt.SSRC, 0)
\* format.rtcpReceiver.ProcessSenderReport(sr, now)
ProcessSenderReport(format, sr, now) == Event("ProcessSenderReport", "", format, sr.SSRC, now)
\* sm.onPacketRTCP(pkt)
OnPacketRTCP(pkt) == Event("onPacketRTCP", pkt.type, -1, pkt.SSRC, 0)

\* ss.s.timeNow() inside a read callback
timeNow == clock'

\* the per-format component ingests an RTP packet: its RTCP receiver learns the
\* sender SSRC from the first packet
formatReadRTP(f, pkt) ==
    IF f.senderSSRC.ok THEN f
    ELSE [f EXCEPT !.senderSSRC = [ssrc |-> pkt.SSRC, ok |-> TRUE]]

\* faulty variant: the first format that knows any sender SSRC is returned
findFormatWithSSRCAnyKnown(m, ssrc) ==
    {pt \in DOMAIN formats[m] : formats[m][pt].senderSSRC.ok}

\* sm.findFormatWithSSRC(ssrc): the formats the scan over the map may return;
\* the empty set stands for nil
findFormatWithSSRC(m, ssrc) ==
    {pt \in DOMAIN formats[m] :
        formats[m][pt].senderSSRC.ok /\ formats[m][pt].senderSSRC.ssrc = ssrc}

\* the loop over the decoded packets in play mode
RECURSIVE rtcpLoopPlay(_)
rtcpLoopPlay(packets) ==
    IF packets = <<>> THEN <<>>
    ELSE <<OnPacketRTCP(Head(packets))>> \o rtcpLoopPlay(Tail(packets))

\* faulty variant: onPacketRTCP is called before ProcessSenderReport
RECURSIVE rtcpLoopRecordCallbackFirst(_, _, _)
rtcpLoopRecordCallbackFirst(m, packets, now) ==
    IF packets = <<>> THEN {<<>>}
    ELSE LET pkt == Head(packets)
             found == findFormatWithSSRC(m, pkt.SSRC)
             heads == IF pkt.type = "SenderReport" /\ found # {}
                      THEN {<<OnPacketRTCP(pkt), ProcessSenderReport(f, pkt, now)>> : f \in found}
                      ELSE {<<OnPacketRTCP(pkt)>>}
         IN  {h \o t : h \in heads, t \in rtcpLoopRecordCallbackFirst(m, Tail(packets), now)}

\* the loop over the decoded packets in record mode: every call sequence the
\* loop can make (the scan of findFormatWithSSRC follows Go's map order)
RECURSIVE rtcpLoopRecord(_, _, _)
rtcpLoopRecord(m, packets, now) ==
    IF packets = <<>> THEN {<<>>}
    ELSE LET pkt == Head(packets)
             found == findFormatWithSSRC(m, pkt.SSRC)
             heads == IF pkt.type = "SenderReport" /\ found # {}
                      THEN {<<ProcessSenderReport(f, pkt, now), OnPacketRTCP(pkt)>> : f \in found}
                      ELSE {<<OnPacketRTCP(pkt)>>}
         IN  {h \o t : h \in heads, t \in rtcpLoopRecord(m, Tail(packets), now)}

\* faulty variant: the sentinel length is taken to be udpMaxPayloadSize
readRTCPUDPPlayOffByOne(m, payload) ==
    /\ bytesReceived' = bytesReceived + payload.len
    /\ UNCHANGED formats
    /\ IF payload.len = udpMaxPayloadSize
       THEN /\ effects' = <<DecodeError("ErrServerRTCPPacketTooBigUDP", 0, 0)>>
            /\ UNCHANGED udpLastPacketTime
       ELSE LET r == rtcpUnmarshal(payload) IN
            IF r.err
            THEN /\ effects' = <<Unmarshal("rtcp"), DecodeError("unmarshal", 0, 0)>>
                 /\ UNCHANGED udpLastPacketTime
            ELSE /\ udpLastPacketTime' = timeNow
                 /\ effects' = <<Unmarshal("rtcp")>> \o rtcpLoopPlay(r.packets)

\* what the ProcessSenderReport calls among calls leave in the formats of media
\* m: each RTCP receiver keeps the last sender report it was given
formatsAfter(m, calls) ==
    [pt \in DOMAIN formats[m] |->
        LET given == {i \in 1 .. Len(calls) :
                        calls[i].ev = "ProcessSenderReport" /\ calls[i].format = pt}
        IN  IF given = {} THEN formats[m][pt]
            ELSE LET last == CHOOSE i \in given : \A j \in given : j <= i
                 IN  [formats[m][pt] EXCEPT
                        !.lastSenderReport = [ssrc |-> calls[last].a, ok |-> TRUE]]]

\* sm.readRTCPUDPPlay(payload)
readRTCPUDPPlay(m, payload) ==
    /\ bytesReceived' = bytesReceived + payload.len
    /\ UNCHANGED formats
    /\ IF payload.len = udpMaxPayloadSize + 1
       THEN /\ effects' = <<DecodeError("ErrServerRTCPPacketTooBigUDP", 0, 0)>>
            /\ UNCHANGED udpLastPacketTime
       ELSE LET r == rtcpUnmarshal(payload) IN
            IF r.err
            THEN /\ effects' = <<Unmarshal("rtcp"), DecodeError("unmarshal", 0, 0)>>
                 /\ UNCHANGED udpLastPacketTime
            ELSE /\ udpLastPacketTime' = timeNow
                 /\ effects' = <<Unmarshal("rtcp")>> \o rtcpLoopPlay(r.packets)

\* faulty variant: an unknown payload type is dropped without a decode error
readRTPUDPRecordDropsUnknown(m, payload) ==
    /\ bytesReceived' = bytesReceived + payload.len
    /\ IF payload.len = udpMaxPayloadSize + 1
       THEN /\ effects' = <<DecodeError("ErrServerRTPPacketTooBigUDP", 0, 0)>>
            /\ UNCHANGED <<udpLastPacketTime, formats>>
       ELSE LET r == rtpUnmarshal(payload) IN
            IF r.err
            THEN /\ effects' = <<Unmarshal("rtp"), DecodeError("unmarshal", 0, 0)>>
                 /\ UNCHANGED <<udpLastPacketTime, formats>>
            ELSE IF r.pkt.PayloadType \notin DOMAIN formats[m]
            THEN /\ effects' = <<Unmarshal("rtp")>>
                 /\ UNCHANGED <<udpLastPacketTime, formats>>
            ELSE /\ udpLastPacketTime' = timeNow
                 /\ formats' = [formats EXCEPT ![m][r.pkt.PayloadType] = formatReadRTP(@, r.pkt)]
                 /\ effects' = <<Unmarshal("rtp"), ReadRTPUDP(r.pkt.PayloadType, r.pkt, timeNow)>>

\* faulty variant: the time is stored before the payload type is looked up
readRTPUDPRecordStampsFirst(m, payload) ==
    /\ bytesReceived' = bytesReceived + payload.len
    /\ IF payload.len = udpMaxPayloadSize + 1
       THEN /\ effects' = <<DecodeError("ErrServerRTPPacketTooBigUDP", 0, 0)>>
            /\ UNCHANGED <<udpLastPacketTime, formats>>
       ELSE LET r == rtpUnmarshal(payload) IN
            IF r.err
            THEN /\ effects' = <<Unmarshal("rtp"), DecodeError("unmarshal", 0, 0)>>
                 /\ UNCHANGED <<udpLastPacketTime, formats>>
            ELSE IF r.pkt.PayloadType \notin DOMAIN formats[m]
            THEN /\ effects' = <<Unmarshal("rtp"),
                                 DecodeError("ErrServerRTPPacketUnknownPayloadType",
                                             r.pkt.PayloadType, 0)>>
                 /\ udpLastPacketTime' = timeNow
                 /\ UNCHANGED formats
            ELSE /\ udpLastPacketTime' = timeNow
                 /\ formats' = [formats EXCEPT ![m][r.pkt.PayloadType] = formatReadRTP(@, r.pkt)]
                 /\ effects' = <<Unmarshal("rtp"), ReadRTPUDP(r.pkt.PayloadType, r.pkt, timeNow)>>

\* sm.readRTPUDPRecord(payload)
readRTPUDPRecord(m, payload) ==
    /\ bytesReceived' = bytesReceived + payload.len
    /\ IF payload.len = udpMaxPayloadSize + 1
       THEN /\ effects' = <<DecodeError("ErrServerRTPPacketTooBigUDP", 0, 0)>>
            /\ UNCHANGED <<udpLastPacketTime, formats>>
       ELSE LET r == rtpUnmarshal(payload) IN
            IF r.err
            THEN /\ effects' = <<Unmarshal("rtp"), DecodeError("unmarshal", 0, 0)>>
                 /\ UNCHANGED <<udpLastPacketTime, formats>>
            ELSE IF r.pkt.PayloadType \notin DOMAIN formats[m]
            THEN /\ effects' = <<Unmarshal("rtp"),
                                 DecodeError("ErrServerRTPPacketUnknownPayloadType",
                                             r.pkt.PayloadType, 0)>>
                 /\ UNCHANGED <<udpLastPacketTime, formats>>
            ELSE /\ udpLastPacketTime' = timeNow
                 /\ formats' = [formats EXCEPT ![m][r.pkt.PayloadType] = formatReadRTP(@, r.pkt)]
                 /\ effects' = <<Unmarshal("rtp"), ReadRTPUDP(r.pkt.PayloadType, r.pkt, timeNow)>>

\* faulty variant: a datagram rejected for its size is not counted
readRTCPUDPRecordCountsAccepted(m, payload) ==
    /\ IF payload.len = udpMaxPayloadSize + 1
       THEN /\ effects' = <<DecodeError("ErrServerRTCPPacketTooBigUDP", 0, 0)>>
            /\ UNCHANGED <<bytesReceived, udpLastPacketTime, formats>>
       ELSE /\ bytesReceived' = bytesReceived + payload.len
            /\ LET r == rtcpUnmarshal(payload) IN
               IF r.err
               THEN /\ effects' = <<Unmarshal("rtcp"), DecodeError("unmarshal", 0, 0)>>
                    /\ UNCHANGED <<udpLastPacketTime, formats>>
               ELSE /\ udpLastPacketTime' = timeNow
                    /\ \E calls \in rtcpLoopRecord(m, r.packets, timeNow) :
                           /\ effects' = <<Unmarshal("rtcp")>> \o calls
                           /\ formats' = [formats EXCEPT ![m] = formatsAfter(m, calls)]

\* sm.readRTCPUDPRecord(payload)
readRTCPUDPRecord(m, payload) ==
    /\ bytesReceived' = bytesReceived + payload.len
    /\ IF payload.len = udpMaxPayloadSize + 1
       THEN /\ effects' = <<DecodeError("ErrServerRTCPPacketTooBigUDP", 0, 0)>>
            /\ UNCHANGED <<udpLastPacketTime, formats>>
       ELSE LET r == rtcpUnmarshal(payload) IN
            IF r.err
            THEN /\ effects' = <<Unmarshal("rtcp"), DecodeError("unmarshal", 0, 0)>>
                 /\ UNCHANGED <<udpLastPacketTime, formats>>
            ELSE /\ udpLastPacketTime' = timeNow
                 /\ \E calls \in rtcpLoopRecord(m, r.packets, timeNow) :
                        /\ effects' = <<Unmarshal("rtcp")>> \o calls
                        /\ formats' = [formats EXCEPT ![m] = formatsAfter(m, calls)]

\* sm.readRTPTCPPlay(payload): nothing
readRTPTCPPlay(m, payload) ==
    /\ effects' = <<>>
    /\ UNCHANGED <<bytesReceived, udpLastPacketTime, formats>>

\* faulty variant: a frame that is too big is reported twice
readRTCPTCPPlayReportsTwice(m, payload) ==
    /\ UNCHANGED <<bytesReceived, udpLastPacketTime, formats>>
    /\ IF payload.len > udpMaxPayloadSize
       THEN effects' = <<DecodeError("ErrServerRTCPPacketTooBig", payload.len, udpMaxPayloadSize),
                         DecodeError("ErrServerRTCPPacketTooBig", payload.len, udpMaxPayloadSize)>>
       ELSE LET r == rtcpUnmarshal(payload) IN
            IF r.err
            THEN effects' = <<Unmarshal("rtcp"), DecodeError("unmarshal", 0, 0)>>
            ELSE effects' = <<Unmarshal("rtcp")>> \o rtcpLoopPlay(r.packets)

\* sm.readRTCPTCPPlay(payload)
readRTCPTCPPlay(m, payload) ==
    /\ UNCHANGED <<bytesReceived, udpLastPacketTime, formats>>
    /\ IF payload.len > udpMaxPayloadSize
       THEN effects' = <<DecodeError("ErrServerRTCPPacketTooBig", payload.len, udpMaxPayloadSize)>>
       ELSE LET r == rtcpUnmarshal(payload) IN
            IF r.err
            THEN effects' = <<Unmarshal("rtcp"), DecodeError("unmarshal", 0, 0)>>
            ELSE effects' = <<Unmarshal("rtcp")>> \o rtcpLoopPlay(r.packets)

\* faulty variant: the packet is handed to some format of the map
readRTPTCPRecordAnyFormat(m, payload) ==
    /\ UNCHANGED <<bytesReceived, udpLastPacketTime>>
    /\ LET r == rtpUnmarshal(payload) IN
       IF r.err
       THEN /\ effects' = <<Unmarshal("rtp"), DecodeError("unmarshal", 0, 0)>>
            /\ UNCHANGED formats
       ELSE IF r.pkt.PayloadType \notin DOMAIN formats[m]
       THEN /\ effects' = <<Unmarshal("rtp"),
                            DecodeError("ErrServerRTPPacketUnknownPayloadType",
                                        r.pkt.PayloadType, 0)>>
            /\ UNCHANGED formats
       ELSE LET any == CHOOSE pt \in DOMAIN formats[m] : TRUE IN
            /\ formats' = [formats EXCEPT ![m][any] = formatReadRTP(@, r.pkt)]
            /\ effects' = <<Unmarshal("rtp"), ReadRTPTCP(any, r.pkt)>>

\* sm.readRTPTCPRecord(payload)
readRTPTCPRecord(m, payload) ==
    /\ UNCHANGED <<bytesReceived, udpLastPacketTime>>
    /\ LET r == rtpUnmarshal(payload) IN
       IF r.err
       THEN /\ effects' = <<Unmarshal("rtp"), DecodeError("unmarshal", 0, 0)>>
            /\ UNCHANGED formats
       ELSE IF r.pkt.PayloadType \notin DOMAIN formats[m]
       THEN /\ effects' = <<Unmarshal("rtp"),
                            DecodeError("ErrServerRTPPacketUnknownPayloadType",
                                        r.pkt.PayloadType, 0)>>
            /\ UNCHANGED formats
       ELSE /\ formats' = [formats EXCEPT ![m][r.pkt.PayloadType] = formatReadRTP(@, r.pkt)]
            /\ effects' = <<Unmarshal("rtp"), ReadRTPTCP(r.pkt.PayloadType, r.pkt)>>

\* faulty variant: a frame of exactly udpMaxPayloadSize bytes is rejected
readRTCPTCPRecordRejectsLimit(m, payload) ==
    /\ UNCHANGED <<bytesReceived, udpLastPacketTime>>
    /\ IF payload.len >= udpMaxPayloadSize
       THEN /\ effects' = <<DecodeError("ErrServerRTCPPacketTooBig", payload.len,
                                        udpMaxPayloadSize)>>
            /\ UNCHANGED formats
       ELSE LET r == rtcpUnmarshal(payload) IN
            IF r.err
            THEN /\ effects' = <<Unmarshal("rtcp"), DecodeError("unmarshal", 0, 0)>>
                 /\ UNCHANGED formats
            ELSE \E calls \in rtcpLoopRecord(m, r.packets, timeNow) :
                    /\ effects' = <<Unmarshal("rtcp")>> \o calls
                    /\ formats' = [formats EXCEPT ![m] = formatsAfter(m, calls)]

\* sm.readRTCPTCPRecord(payload)
readRTCPTCPRecord(m, payload) ==
    /\ UNCHANGED <<bytesReceived, udpLastPacketTime>>
    /\ IF payload.len > udpMaxPayloadSize
       THEN /\ effects' = <<DecodeError("ErrServerRTCPPacketTooBig", payload.len,
                                        udpMaxPayloadSize)>>
            /\ UNCHANGED formats
       ELSE LET r == rtcpUnmarshal(payload) IN
            IF r.err
            THEN /\ effects' = <<Unmarshal("rtcp"), DecodeError("unmarshal", 0, 0)>>
                 /\ UNCHANGED formats
            ELSE \E calls \in rtcpLoopRecord(m, r.packets, timeNow) :
                    /\ effects' = <<Unmarshal("rtcp")>> \o calls
                    /\ formats' = [formats EXCEPT ![m] = formatsAfter(m, calls)]

\* a listener or the dispatcher invokes the registered callback
invoke(cb, payload) ==
    CASE cb.fn = "readRTCPUDPPlay" -> readRTCPUDPPlay(cb.m, payload)
      [] cb.fn = "readRTPUDPRecord" -> readRTPUDPRecord(cb.m, payload)
      [] cb.fn = "readRTCPUDPRecord" -> readRTCPUDPRecord(cb.m, payload)
      [] cb.fn = "readRTPTCPPlay" -> readRTPTCPPlay(cb.m, payload)
      [] cb.fn = "readRTCPTCPPlay" -> readRTCPTCPPlay(cb.m, payload)
      [] cb.fn = "readRTPTCPRecord" -> readRTPTCPRecord(cb.m, payload)
      [] cb.fn = "readRTCPTCPRecord" -> readRTCPTCPRecord(cb.m, payload)
      [] OTHER -> FALSE

\* what every delivery does around the callback
delivered(cb, payload) ==
    /\ clock < MaxIn
    /\ clock' = clock + 1
    /\ lastIn' = [fn |-> cb.fn, m |-> cb.m, payload |-> payload]
    /\ invoke(cb, payload)
    /\ UNCHANGED <<configVars, pc, wiringVars, writeVars>>

\* the shared RTP listener receives a datagram from a registered client
DeliverUDPRTP ==
    \E key \in Keys, payload \in RTPPayloads(UDPLens) :
        /\ udpRTPListener[key].m \in Medias
        /\ delivered(udpRTPListener[key], payload)

\* the shared RTCP listener receives a datagram from a registered client
DeliverUDPRTCP ==
    \E key \in Keys, payload \in RTCPPayloads(UDPLens) :
        /\ udpRTCPListener[key].m \in Medias
        /\ delivered(udpRTCPListener[key], payload)

\* the TCP connection's reader receives an interleaved frame on an installed channel
DeliverTCP ==
    \E ch \in DOMAIN tcpCallbackByChannel,
       payload \in RTPPayloads(TCPLens) \cup RTCPPayloads(TCPLens) :
        /\ payload.kind = "rtp" => ch = tcpChannel(tcpCallbackByChannel[ch].m)
        /\ payload.kind = "rtcp" => ch = tcpChannel(tcpCallbackByChannel[ch].m) + 1
        /\ delivered(tcpCallbackByChannel[ch], payload)

Reads == DeliverUDPRTP \/ DeliverUDPRTCP \/ DeliverTCP

NextRead == Lifecycle \/ Reads

SpecRead == Init /\ [][NextRead]_vars

\* the read callbacks running while the worker runs the queued write tasks;
\* one delivery fewer than MaxIn, the worker's steps taking its place
NextReadWrite == Lifecycle \/ WriterRun \/ (Reads /\ clock' < MaxIn)

SpecReadWrite == Init /\ [][NextReadWrite]_vars

Next == Lifecycle \/ Writes \/ WriterRun \/ Reads

Spec == Init /\ [][Next]_vars

\* ================================================================== claims
\* the write calls (by number) whose task is on the wire / still queued
wireIds == [i \in 1 .. Len(wire) |-> wire[i].id]
queuedIds == [i \in 1 .. Len(writer) |-> writer[i].id]
Occurrences(id) ==
    Cardinality({i \in 1 .. Len(wire) : wire[i].id = id})
    + Cardinality({i \in 1 .. Len(writer) : writer[i].id = id})
FullCalls == {i \in 1 .. Len(returned) : returned[i].err = "ErrServerWriteQueueFull"}
RECURSIVE SumLen(_)
SumLen(s) == IF s = <<>> THEN 0 ELSE Head(s).payload.len + SumLen(Tail(s))
StrictlyIncreasing(s) == \A i, j \in 1 .. Len(s) : i < j => s[i] < s[j]

\* C1: a write call returns the queue-full error exactly when push refused its
\* task; a refused task is neither queued nor ever written, an accepted one is
\* queued or written exactly once; and of N calls made before anything was
\* drained, at least N - WriteQueueSize returned queue-full.
C1_QueueFullExactlyOnReject ==
    /\ \A i \in 1 .. Len(returned) :
          /\ (returned[i].err = "ErrServerWriteQueueFull") <=> ~returned[i].ok
          /\ returned[i].err \in {"ErrServerWriteQueueFull", "nil"}
          /\ returned[i].err = "ErrServerWriteQueueFull" => Occurrences(i) = 0
          /\ returned[i].err = "nil" => Occurrences(i) = 1
    /\ wire = <<>> => Cardinality(FullCalls) >= Len(returned) - WriteQueueSize

\* C1 witness: more calls than the queue holds, none drained, the last one refused
C1_Witness ==
    /\ wire = <<>>
    /\ nWrites >= 1
    /\ Len(returned) > WriteQueueSize
    /\ returned[Len(returned)].err = "ErrServerWriteQueueFull"
    /\ Len(writer) = WriteQueueSize

\* C2 as stated: the outbound byte counter already includes the payload lengths
\* of the accepted writes that are still pending in the queue.
C2_CounterCountsAccepted == bytesSent = SumLen(wire) + SumLen(writer)

\* C2 amended: the outbound byte counter is incremented by the queued task when
\* the worker runs it, so it counts exactly the writes performed; writes still
\* pending in the queue are not counted yet.
C2_CounterCountsPerformed == bytesSent = SumLen(wire)

\* C2 witness: writes were performed and counted while accepted writes are pending
C2_Witness ==
    /\ writer # <<>>
    /\ wire # <<>>
    /\ bytesSent = SumLen(wire)
    /\ bytesSent > 0

OpenCalls(m, op, payload) ==
    {i \in 1 .. Len(returned) :
        returned[i].m = m /\ returned[i].op = op /\ returned[i].payload = payload}
\* the network writes of the given firewall-opening payload of media m
OpenSent(m, payload) == {i \in 1 .. Len(wire) : wire[i].m = m /\ wire[i].payload = payload}
keyRTP(m) == <<ClientIP, udpRTPReadPort(m)>>
keyRTCP(m) == <<ClientIP, udpRTCPReadPort(m)>>
RecordOverUDP == ssState = "Record" /\ setuppedTransport = "UDP"
QueuedIdSet == {writer[i].id : i \in 1 .. Len(writer)}

\* C4 as stated: in record mode over UDP unicast, once a read callback of the
\* media is registered, exactly one empty RTP packet and exactly one empty RTCP
\* receiver report have been transmitted to the remote addresses.
C4_OpenPacketsSentBeforeRegistration ==
    \A m \in Medias :
        (RecordOverUDP /\ (udpRTPListener[keyRTP(m)] # None \/ udpRTCPListener[keyRTCP(m)] # None))
        => /\ Cardinality(OpenSent(m, EmptyRTP)) = 1
           /\ Cardinality(OpenSent(m, EmptyRR)) = 1

\* C4 amended: in record mode over UDP unicast start() pushes exactly one empty
\* RTP packet and exactly one empty RTCP receiver report on the write queue,
\* both before it registers a read callback; each of the two that the queue
\* accepted is transmitted exactly once, to the remote RTP and RTCP address
\* through the RTP and RTCP listener, when the worker runs it, and one the full
\* queue refused is never transmitted; in play mode and in multicast or TCP mode
\* start() pushes and sends no such packet.
C4_OpenPacketsQueuedBeforeRegistration ==
    \A m \in Medias :
        LET rtp == OpenCalls(m, "writePacketRTP", EmptyRTP)
            rtcp == OpenCalls(m, "writePacketRTCP", EmptyRR)
        IN  /\ RecordOverUDP =>
                /\ Cardinality(rtp) = IF pc[m] \in {"created", "udp", "openRTP"} THEN 0 ELSE 1
                /\ Cardinality(rtcp) = IF pc[m] \in {"created", "udp", "openRTP", "openRTCP"} THEN 0 ELSE 1
                /\ (udpRTPListener[keyRTP(m)] # None \/ udpRTCPListener[keyRTCP(m)] # None)
                      => Cardinality(rtp) = 1 /\ Cardinality(rtcp) = 1
                /\ \A i \in rtp \cup rtcp :
                      Cardinality({j \in 1 .. Len(wire) : wire[j].id = i})
                         = IF returned[i].ok /\ i \notin QueuedIdSet THEN 1 ELSE 0
                /\ \A j \in OpenSent(m, EmptyRTP) :
                      /\ wire[j].id \in rtp
                      /\ wire[j].via = "udpRTPListener"
                      /\ wire[j].to = udpRTPWriteAddr(m)
                /\ \A j \in OpenSent(m, EmptyRR) :
                      /\ wire[j].id \in rtcp
                      /\ wire[j].via = "udpRTCPListener"
                      /\ wire[j].to = udpRTCPWriteAddr(m)
            /\ ~RecordOverUDP =>
                /\ OpenCalls(m, "writePacketRTP", EmptyRTP) = {}
                /\ OpenCalls(m, "writePacketRTCP", EmptyRR) = {}
                /\ OpenSent(m, EmptyRTP) = {}
                /\ OpenSent(m, EmptyRR) = {}

\* C4 witness: a record media over UDP is started, and its two empty packets
\* have been transmitted
C4_Witness ==
    /\ RecordOverUDP
    /\ \E m \in Medias :
          /\ pc[m] = "started"
          /\ udpRTPListener[keyRTP(m)] = Callback(m, "readRTPUDPRecord")
          /\ Cardinality(OpenSent(m, EmptyRTP)) = 1
          /\ Cardinality(OpenSent(m, EmptyRR)) = 1

\* C5: over UDP unicast, in play and in record mode, once stop() has removed
\* the clients neither listener holds a callback for the media's keys, no
\* datagram is dispatched to a read callback of the media afterwards, and the
\* removal changes no other key of either listener.
C5_StopLeavesNoUDPCallbacks ==
    /\ [](setuppedTransport = "UDP" =>
            \A m \in Medias :
                pc[m] \in {"stopFormats", "stopped"}
                => udpRTPListener[keyRTP(m)] = None /\ udpRTCPListener[keyRTCP(m)] = None)
    /\ [][setuppedTransport = "UDP" =>
            \A m \in Medias :
                /\ (pc[m] \in {"stopFormats", "stopped"} /\ clock' # clock) => lastIn'.m # m
                /\ (pc[m] = "started" /\ pc'[m] = "stopFormats")
                   => /\ \A k \in Keys \ {keyRTP(m)} : udpRTPListener'[k] = udpRTPListener[k]
                      /\ \A k \in Keys \ {keyRTCP(m)} : udpRTCPListener'[k] = udpRTCPListener[k]]_vars

\* C5 witness: one media over UDP is stopped while the other is still
\* registered and has just received a datagram
C5_Witness ==
    /\ setuppedTransport = "UDP"
    /\ \E m, o \in Medias :
          /\ pc[m] = "stopped"
          /\ pc[o] = "started"
          /\ udpRTCPListener[keyRTCP(o)] # None
          /\ udpRTCPListener[ForeignKey] = Foreign
          /\ lastIn.m = o

\* the per-format dispatches and the decode errors among a callback's calls
ReadEvents(es) == SelectSeq(es, LAMBDA e : e.ev \in {"readRTPUDP", "readRTPTCP"})
ErrorEvents(es) == SelectSeq(es, LAMBDA e : e.ev = "onDecodeError")
RTCPEvents(es) == SelectSeq(es, LAMBDA e : e.ev = "onPacketRTCP")
\* the last callback was a record-mode RTP read of a well-formed packet
RTPRecordIn ==
    /\ lastIn.fn \in {"readRTPUDPRecord", "readRTPTCPRecord"}
    /\ lastIn.payload.kind = "rtp"
KnownType == lastIn.payload.PayloadType \in DOMAIN formats[lastIn.m]
\* the UDP listener handed over a datagram of the sentinel length
SentinelLength == lastIn.payload.len = udpMaxPayloadSize + 1
InPacket == [PayloadType |-> lastIn.payload.PayloadType, SSRC |-> lastIn.payload.SSRC]
DispatchedOnce ==
    /\ ReadEvents(effects) =
          IF lastIn.fn = "readRTPUDPRecord"
          THEN <<ReadRTPUDP(lastIn.payload.PayloadType, InPacket, clock)>>
          ELSE <<ReadRTPTCP(lastIn.payload.PayloadType, InPacket)>>
    /\ ErrorEvents(effects) = <<>>
RejectedAsUnknown ==
    /\ ErrorEvents(effects) =
          <<DecodeError("ErrServerRTPPacketUnknownPayloadType", lastIn.payload.PayloadType, 0)>>
    /\ ReadEvents(effects) = <<>>

\* C6 as stated: every well-formed RTP packet of a payload type in formats,
\* read over UDP or TCP in record mode, is handed exactly once to the
\* component of that payload type and to no other, without a decode error.
C6_KnownTypeAlwaysDispatched == (RTPRecordIn /\ KnownType) => DispatchedOnce

\* C6 amended: the same, except for a UDP datagram of length
\* udpMaxPayloadSize + 1, which is rejected as too big before it is decoded.
C6_KnownTypeDispatched ==
    (RTPRecordIn /\ KnownType /\ ~(lastIn.fn = "readRTPUDPRecord" /\ SentinelLength))
    => DispatchedOnce

\* C6 witness: a packet of a known payload type came in over TCP and was handed
\* to the component of its payload type
C6_Witness ==
    /\ RTPRecordIn
    /\ lastIn.fn = "readRTPTCPRecord"
    /\ lastIn.m = 1
    /\ lastIn.payload.PayloadType = 97
    /\ \E i \in 1 .. Len(effects) : effects[i].ev = "readRTPTCP" /\ effects[i].format = 97

\* C7 as stated: every well-formed RTP packet of a payload type absent from
\* formats, read over UDP or TCP in record mode, raises exactly one
\* unknown-payload-type decode error carrying the type, and no dispatch.
C7_UnknownTypeAlwaysRejected == (RTPRecordIn /\ ~KnownType) => RejectedAsUnknown

\* C7 amended: the same, except for a UDP datagram of length
\* udpMaxPayloadSize + 1, which raises the too-big decode error instead.
C7_UnknownTypeRejected ==
    (RTPRecordIn /\ ~KnownType /\ ~(lastIn.fn = "readRTPUDPRecord" /\ SentinelLength))
    => RejectedAsUnknown

\* C7 witness: a packet of an unknown payload type came in over UDP and raised
\* the unknown-payload-type error
C7_Witness ==
    /\ RTPRecordIn
    /\ lastIn.fn = "readRTPUDPRecord"
    /\ ~KnownType
    /\ ~SentinelLength
    /\ ErrorEvents(effects) # <<>>

\* the last callback was one of the three UDP read callbacks
UDPIn == lastIn.fn \in {"readRTCPUDPPlay", "readRTPUDPRecord", "readRTCPUDPRecord"}
TooBigUDP ==
    IF lastIn.fn = "readRTPUDPRecord"
    THEN DecodeError("ErrServerRTPPacketTooBigUDP", 0, 0)
    ELSE DecodeError("ErrServerRTCPPacketTooBigUDP", 0, 0)
InCodec == IF lastIn.fn \in {"readRTPUDPRecord", "readRTPTCPRecord"} THEN "rtp" ELSE "rtcp"

\* C8: on each UDP read path a datagram of length udpMaxPayloadSize + 1 makes
\* the callback raise the too-big decode error and nothing else (no unmarshal,
\* no dispatch, no onPacketRTCP) and leaves the last-activity time as it was;
\* a datagram of any other length is passed to unmarshal.
C8_SentinelLengthRejectedUDP ==
    UDPIn =>
        IF SentinelLength
        THEN effects = <<TooBigUDP>> /\ udpLastPacketTime < clock
        ELSE effects # <<>> /\ effects[1] = Unmarshal(InCodec)

\* C8 witness: a decodable RTCP datagram of the sentinel length was rejected
C8_Witness ==
    /\ UDPIn
    /\ SentinelLength
    /\ lastIn.payload.kind = "rtcp"
    /\ effects = <<TooBigUDP>>

\* the last callback was one of the two TCP RTCP read callbacks
TCPRTCPIn == lastIn.fn \in {"readRTCPTCPPlay", "readRTCPTCPRecord"}

\* C9: on the TCP RTCP read path, in play and in record mode, a frame of at
\* most udpMaxPayloadSize bytes is passed to unmarshal, and a longer one raises
\* the packet-too-big decode error with its length and the limit, and nothing
\* else.
C9_TCPFrameLimit ==
    TCPRTCPIn =>
        IF lastIn.payload.len <= udpMaxPayloadSize
        THEN /\ effects # <<>>
             /\ effects[1] = Unmarshal("rtcp")
             /\ \A i \in 1 .. Len(effects) : effects[i].name # "ErrServerRTCPPacketTooBig"
        ELSE effects = <<DecodeError("ErrServerRTCPPacketTooBig", lastIn.payload.len,
                                     udpMaxPayloadSize)>>

\* C9 witness: a record-mode frame of exactly udpMaxPayloadSize bytes was decoded
C9_Witness ==
    /\ lastIn.fn = "readRTCPTCPRecord"
    /\ lastIn.payload.len = udpMaxPayloadSize
    /\ lastIn.payload.kind = "rtcp"
    /\ RTCPEvents(effects) # <<>>

\* the last callback was an RTCP read that passed the size check and decoded
RTCPDecodedIn ==
    /\ lastIn.fn \in {"readRTCPUDPPlay", "readRTCPUDPRecord", "readRTCPTCPPlay", "readRTCPTCPRecord"}
    /\ lastIn.payload.kind = "rtcp"
    /\ lastIn.fn \in {"readRTCPUDPPlay", "readRTCPUDPRecord"} => ~SentinelLength
    /\ lastIn.fn \in {"readRTCPTCPPlay", "readRTCPTCPRecord"} => lastIn.payload.len <= udpMaxPayloadSize
RecordIn == lastIn.fn \in {"readRTCPUDPRecord", "readRTCPTCPRecord"}
\* the formats of the receiving media that know ssrc as their sender SSRC
Knowing(ssrc) ==
    {pt \in DOMAIN formats[lastIn.m] :
        formats[lastIn.m][pt].senderSSRC = [ssrc |-> ssrc, ok |-> TRUE]}
\* the reports among the decoded packets that ProcessSenderReport is due for
DueReports ==
    {k \in 1 .. Len(lastIn.payload.packets) :
        /\ RecordIn
        /\ lastIn.payload.packets[k].type = "SenderReport"
        /\ Knowing(lastIn.payload.packets[k].SSRC) # {}}

\* C10: for a decoded RTCP datagram or frame, on all four read paths,
\* onPacketRTCP is called once per packet, in packet order; in record mode a
\* sender report whose SSRC is the known sender SSRC of a component has
\* ProcessSenderReport called once, right before its own onPacketRTCP, on such
\* a component; no other ProcessSenderReport call is made, and none in play mode.
C10_OnPacketRTCPOncePerPacket ==
    RTCPDecodedIn =>
        LET packets == lastIn.payload.packets
            calls == Tail(effects)
            psr == {i \in 1 .. Len(calls) : calls[i].ev = "ProcessSenderReport"}
        IN  /\ effects[1] = Unmarshal("rtcp")
            /\ RTCPEvents(effects) = [k \in 1 .. Len(packets) |-> OnPacketRTCP(packets[k])]
            /\ \A i \in 1 .. Len(calls) : calls[i].ev \in {"ProcessSenderReport", "onPacketRTCP"}
            /\ Cardinality(psr) = Cardinality(DueReports)
            /\ \A i \in psr :
                  /\ RecordIn
                  /\ i < Len(calls)
                  /\ calls[i + 1] = OnPacketRTCP(SR(calls[i].a))
                  /\ calls[i].format \in Knowing(calls[i].a)
                  /\ calls[i].b = clock
            /\ \A k \in DueReports :
                  \E i \in psr :
                      i + 1 = k + Cardinality({j \in DueReports : j <= k})

\* C10 witness: in record mode a compound packet with an unmatched receiver
\* report and a matched sender report was read
C10_Witness ==
    /\ RTCPDecodedIn
    /\ lastIn.fn = "readRTCPUDPRecord"
    /\ lastIn.payload.packets = <<RR(9), SR(7)>>
    /\ DueReports = {2}
    /\ Len(effects) = 4

\* the formats of media m whose RTCP receiver has learned ssrc as sender SSRC
Learned(m, ssrc) ==
    {pt \in DOMAIN formats[m] :
        formats[m][pt].senderSSRC = [ssrc |-> ssrc, ok |-> TRUE]}

\* C11: findFormatWithSSRC(s) finds nothing when no format of the media has
\* learned s as its sender SSRC (so nothing in play mode, where formats is
\* empty, and nothing for the zero SSRC of a receiver that has learned none);
\* every format it may return has learned exactly s; and a format that has
\* processed a sender report with SSRC s is found for s from then on.
C11_FindFormatWithSSRC ==
    \A m \in Medias :
        /\ \A s \in {0, 9} \cup InSSRCs :
              /\ Learned(m, s) = {} => findFormatWithSSRC(m, s) = {}
              /\ \A pt \in findFormatWithSSRC(m, s) :
                    /\ pt \in DOMAIN formats[m]
                    /\ formats[m][pt].senderSSRC.ok
                    /\ formats[m][pt].senderSSRC.ssrc = s
        /\ \A pt \in DOMAIN formats[m] :
              formats[m][pt].lastSenderReport.ok =>
                  pt \in findFormatWithSSRC(m, formats[m][pt].lastSenderReport.ssrc)

\* C11 witness: a format has processed a sender report with SSRC 7 and is the
\* one found for 7, while nothing is found for 8
C11_Witness ==
    \E m \in Medias : \E pt \in DOMAIN formats[m] :
        /\ formats[m][pt].lastSenderReport = [ssrc |-> 7, ok |-> TRUE]
        /\ findFormatWithSSRC(m, 7) = {pt}
        /\ findFormatWithSSRC(m, 8) = {}

\* the last callback got a packet that the code rejects: a UDP datagram of the
\* sentinel length or a TCP RTCP frame above the limit, a packet that does not
\* decode, or an RTP packet of a payload type absent from formats
OversizedIn ==
    \/ UDPIn /\ SentinelLength
    \/ TCPRTCPIn /\ lastIn.payload.len > udpMaxPayloadSize
MalformedIn ==
    /\ lastIn.fn \notin {"none", "readRTPTCPPlay"}
    /\ ~OversizedIn
    /\ lastIn.payload.kind = "bad"
UnknownTypeIn == RTPRecordIn /\ ~OversizedIn /\ ~KnownType
RejectedIn == OversizedIn \/ MalformedIn \/ UnknownTypeIn

\* C12: a callback that gets a rejected packet calls onDecodeError exactly once
\* and hands nothing to a format or to onPacketRTCP, and the step leaves the
\* listener registrations, the dispatcher, the formats, the write functions,
\* the TCP frames and the start/stop position of every media as they were, which
\* is all the state a later callback reads; a packet that is not rejected
\* raises no decode error.
C12_RejectedPacketFrame ==
    [][clock' # clock =>
          IF RejectedIn'
          THEN /\ Len(ErrorEvents(effects')) = 1
               /\ \A i \in 1 .. Len(effects') :
                     effects'[i].ev \in {"Unmarshal", "onDecodeError"}
               /\ UNCHANGED <<formats, pc, configVars, wiringVars>>
          ELSE ErrorEvents(effects') = <<>>]_vars

\* C12 witness: the second packet a started media got over TCP was rejected for
\* its unknown payload type, with the dispatcher entry still in place
C12_Witness ==
    /\ clock = 2
    /\ UnknownTypeIn
    /\ lastIn.fn = "readRTPTCPRecord"
    /\ Len(ErrorEvents(effects)) = 1
    /\ pc[lastIn.m] = "started"
    /\ tcpCallbackByChannel[tcpChannel(lastIn.m)] = Callback(lastIn.m, "readRTPTCPRecord")

\* the keys under which a listener holds a callback of media m
RegisteredKeys(listener, m) == {k \in Keys : listener[k].m = m}

\* C13: once start() has returned and until stop() begins, a media over UDP
\* unicast in play mode has readRTCPUDPPlay registered with the RTCP listener
\* under (client IP, RTCP read port) and nothing with the RTP listener; in
\* record mode it has readRTPUDPRecord and readRTCPUDPRecord registered, one
\* with each listener, under (client IP, RTP read port) and (client IP, RTCP
\* read port); over multicast (and TCP) it has nothing registered, and over
\* multicast no step, stop() included, changes either listener.
C13_UDPRegistrationsByMode ==
    /\ [](\A m \in Medias :
            pc[m] = "started" =>
                CASE setuppedTransport = "UDP" /\ ssState = "Play" ->
                        /\ RegisteredKeys(udpRTPListener, m) = {}
                        /\ RegisteredKeys(udpRTCPListener, m) = {keyRTCP(m)}
                        /\ udpRTCPListener[keyRTCP(m)] = Callback(m, "readRTCPUDPPlay")
                  [] setuppedTransport = "UDP" /\ ssState = "Record" ->
                        /\ RegisteredKeys(udpRTPListener, m) = {keyRTP(m)}
                        /\ udpRTPListener[keyRTP(m)] = Callback(m, "readRTPUDPRecord")
                        /\ RegisteredKeys(udpRTCPListener, m) = {keyRTCP(m)}
                        /\ udpRTCPListener[keyRTCP(m)] = Callback(m, "readRTCPUDPRecord")
                  [] OTHER ->
                        /\ RegisteredKeys(udpRTPListener, m) = {}
                        /\ RegisteredKeys(udpRTCPListener, m) = {})
    /\ [][setuppedTransport = "UDPMulticast" =>
            UNCHANGED <<udpRTPListener, udpRTCPListener>>]_vars

\* C13 witness: two record medias over UDP unicast are started, each
\* registered with both listeners under its own ports
C13_Witness ==
    /\ RecordOverUDP
    /\ \A m \in Medias :
          /\ pc[m] = "started"
          /\ udpRTPListener[keyRTP(m)] = Callback(m, "readRTPUDPRecord")
          /\ udpRTCPListener[keyRTCP(m)] = Callback(m, "readRTCPUDPRecord")

\* the read callbacks of media m that match the session direction
tcpRTPCallback(m) ==
    Callback(m, IF ssState = "Play" THEN "readRTPTCPPlay" ELSE "readRTPTCPRecord")
tcpRTCPCallback(m) ==
    Callback(m, IF ssState = "Play" THEN "readRTCPTCPPlay" ELSE "readRTCPTCPRecord")

\* C14: over TCP, once start() has run for a media, the dispatcher maps the
\* media's channel to its RTP read callback and the next channel to its RTCP
\* read callback, both of the play or record variant the session direction
\* asks for, whatever the other medias have done since; the RTP frame carries
\* the media's channel, and whenever the frames exist the RTCP frame's channel
\* is the RTP frame's channel plus 1.
C14_TCPChannelsAfterStart ==
    \A m \in Medias :
        /\ (setuppedTransport = "TCP" /\ pc[m] \in {"started", "stopFormats", "stopped"}) =>
              /\ {tcpChannel(m), tcpChannel(m) + 1} \subseteq DOMAIN tcpCallbackByChannel
              /\ tcpCallbackByChannel[tcpChannel(m)] = tcpRTPCallback(m)
              /\ tcpCallbackByChannel[tcpChannel(m) + 1] = tcpRTCPCallback(m)
              /\ tcpRTPFrame[m].set
              /\ tcpRTPFrame[m].Channel = tcpChannel(m)
        /\ tcpRTPFrame[m].set <=> tcpRTCPFrame[m].set
        /\ tcpRTPFrame[m].set => tcpRTCPFrame[m].Channel = tcpRTPFrame[m].Channel + 1

\* C14 witness: both medias of a record session over TCP are started and the
\* dispatcher holds the four callbacks
C14_Witness ==
    /\ setuppedTransport = "TCP"
    /\ ssState = "Record"
    /\ \A m \in Medias : pc[m] = "started"
    /\ DOMAIN tcpCallbackByChannel = {0, 1, 2, 3}
    /\ tcpCallbackByChannel[3] = Callback(2, "readRTCPTCPRecord")

\* media m has a callback in a listener or in the dispatcher
Registered(m) ==
    \/ RegisteredKeys(udpRTPListener, m) # {}
    \/ RegisteredKeys(udpRTCPListener, m) # {}
    \/ \E ch \in DOMAIN tcpCallbackByChannel : tcpCallbackByChannel[ch].m = m
\* the calls of a callback that hand a packet or a report to a format
FormatCalls(es) ==
    {es[i].format : i \in {j \in 1 .. Len(es) :
        es[j].ev \in {"readRTPUDP", "readRTPTCP", "ProcessSenderReport"}}}

\* C15: a media that has a callback registered with a listener or the
\* dispatcher, and whose stop() has not completed, has all its formats
\* started, start() having started them before its first registration; and
\* every packet or sender report that a callback hands to a format, at any
\* point of start() or after it, reaches a format that was started before
\* the callback ran.
C15_FormatsStartedBeforeRegistration ==
    /\ [](\A m \in Medias :
            (Registered(m) /\ pc[m] # "stopped") =>
                \A pt \in DOMAIN formats[m] : formats[m][pt].started)
    /\ [][clock' # clock =>
            (pc[lastIn'.m] # "stopped" =>
                \A pt \in FormatCalls(effects') : formats[lastIn'.m][pt].started)]_vars

\* C15 witness: start() of a record media over UDP has registered the RTP
\* callback but not yet the RTCP one, and an RTP packet has already been
\* handed to a format of the media
C15_Witness ==
    /\ RecordOverUDP
    /\ lastIn.m \in Medias
    /\ pc[lastIn.m] = "addRTCP"
    /\ lastIn.fn = "readRTPUDPRecord"
    /\ FormatCalls(effects) # {}
    /\ \A pt \in DOMAIN formats[lastIn.m] : formats[lastIn.m][pt].started

\* the last callback was a UDP read of a datagram that passed the size check
\* and decoded
UDPDecodedIn == UDPIn /\ ~SentinelLength /\ lastIn.payload.kind # "bad"

\* C16 as stated: the last-activity time is the time of the last callback
\* exactly when that callback was a UDP read of a datagram that passed the
\* size check and decoded, whatever the payload type of an RTP datagram.
C16_TimestampBeforeTypeLookup ==
    lastIn.fn # "none" =>
        IF UDPDecodedIn THEN udpLastPacketTime = clock ELSE udpLastPacketTime < clock

\* C16 amended: the last-activity time is the time of the last callback
\* exactly when that callback was a UDP read of an RTCP datagram that passed
\* the size check and decoded, or of an RTP datagram that did so and whose
\* payload type is in formats; an RTP datagram of an unknown payload type, a
\* datagram rejected for its size or by the decoder, and every TCP frame
\* leave it as it was.
C16_TimestampOnAcceptedUDP ==
    lastIn.fn # "none" =>
        IF UDPDecodedIn /\ (lastIn.fn = "readRTPUDPRecord" => KnownType)
        THEN udpLastPacketTime = clock
        ELSE udpLastPacketTime < clock

\* C16 witness: an accepted datagram set the time, and the next one, an RTP
\* datagram of an unknown payload type, left it there
C16_Witness ==
    /\ lastIn.fn = "readRTPUDPRecord"
    /\ UDPDecodedIn
    /\ ~KnownType
    /\ udpLastPacketTime = 1
    /\ clock = 2

Strategy(m) == <<writePacketRTPInQueue[m], writePacketRTCPInQueue[m]>>
NoStrategy == <<"nil", "nil">>
UDPStrategy == <<"writePacketRTPInQueueUDP", "writePacketRTCPInQueueUDP">>
TCPStrategy == <<"writePacketRTPInQueueTCP", "writePacketRTCPInQueueTCP">>
\* start() of media m has passed the selection of the write functions
Selected(m) == pc[m] \notin {"created", "udp", "tcp"}

\* C18: a media has no write function before start() selects them and, from
\* the selection on, the two UDP functions over UDP unicast or multicast and
\* the two TCP functions over TCP; every queued write task, the firewall
\* packets of start() included, belongs to a media that has selected; every
\* performed write went through the transport of the negotiated mode, to the
\* address or channel of its media; and a selection once made never changes.
C18_OneWriteStrategy ==
    /\ [](/\ \A m \in Medias :
               Strategy(m) =
                   IF ~Selected(m) THEN NoStrategy
                   ELSE IF setuppedTransport = "TCP" THEN TCPStrategy ELSE UDPStrategy
          /\ \A i \in 1 .. Len(writer) : Selected(writer[i].m)
          /\ \A i \in 1 .. Len(wire) :
               IF setuppedTransport = "TCP"
               THEN /\ wire[i].via = "tcpConn"
                    /\ wire[i].to \in {<<"channel", tcpChannel(wire[i].m)>>,
                                       <<"channel", tcpChannel(wire[i].m) + 1>>}
               ELSE \/ wire[i].via = "udpRTPListener" /\ wire[i].to = udpRTPWriteAddr(wire[i].m)
                    \/ wire[i].via = "udpRTCPListener" /\ wire[i].to = udpRTCPWriteAddr(wire[i].m))
    /\ [][\A m \in Medias : Strategy(m) # NoStrategy => Strategy(m)' = Strategy(m)]_vars

\* C18 witness: over multicast, where nothing is registered, an RTP and an RTCP
\* write were performed through the UDP listeners, and the media was stopped
\* with its UDP functions still selected
C18_Witness ==
    /\ setuppedTransport = "UDPMulticast"
    /\ \E m \in Medias :
          /\ pc[m] = "stopped"
          /\ Strategy(m) = UDPStrategy
          /\ \E i, j \in 1 .. Len(wire) :
                /\ wire[i].m = m /\ wire[i].via = "udpRTPListener"
                /\ wire[j].m = m /\ wire[j].via = "udpRTCPListener"

\* C19 as stated: stop() has removed the UDP callbacks of a media by the time
\* it stops the formats, and once stop() has returned no read callback of the
\* media, over UDP or over TCP, hands a packet or a sender report to a format
\* that stop() has stopped.
C19_NoDispatchToStoppedFormat ==
    /\ [](\A m \in Medias :
            pc[m] \in {"stopFormats", "stopped"} =>
                /\ RegisteredKeys(udpRTPListener, m) = {}
                /\ RegisteredKeys(udpRTCPListener, m) = {})
    /\ [][clock' # clock =>
            (pc[lastIn'.m] = "stopped" =>
                \A pt \in FormatCalls(effects') : formats[lastIn'.m][pt].started)]_vars

\* the step is the worker running the oldest task, a write of media m
WorkerWrote(m) ==
    /\ writer # <<>>
    /\ Head(writer).m = m
    /\ writer' = Tail(writer)
    /\ wire' = Append(wire, wire'[Len(wire) + 1])
    /\ wire'[Len(wire) + 1].id = Head(writer).id

\* C20: over TCP every interleaved frame sent carries the payload of the write
\* call that enqueued it, on the channel of that call's media, the RTP channel
\* for writePacketRTP and the RTCP channel for writePacketRTCP; and the frames
\* and the write buffer of a media change only when start() allocates them and
\* when the single worker runs a write task of that media, one task per step,
\* the frame then holding the payload just sent.
C20_TCPFramesUsedByWorkerOnly ==
    /\ [](setuppedTransport = "TCP" =>
            \A i \in 1 .. Len(wire) :
                LET call == returned[wire[i].id]
                IN  /\ wire[i].via = "tcpConn"
                    /\ wire[i].m = call.m
                    /\ wire[i].payload = call.payload
                    /\ wire[i].to =
                          <<"channel",
                            IF call.op = "writePacketRTP"
                            THEN tcpChannel(call.m) ELSE tcpChannel(call.m) + 1>>)
    /\ [][\A m \in Medias :
            /\ tcpBuffer'[m] # tcpBuffer[m] => pc[m] = "tcp" /\ pc'[m] = "started"
            /\ (tcpRTPFrame'[m] # tcpRTPFrame[m] \/ tcpRTCPFrame'[m] # tcpRTCPFrame[m]) =>
                  \/ pc[m] = "tcp" /\ pc'[m] = "started"
                  \/ /\ WorkerWrote(m)
                     /\ tcpRTPFrame'[m] # tcpRTPFrame[m] =>
                           /\ tcpRTCPFrame'[m] = tcpRTCPFrame[m]
                           /\ tcpRTPFrame'[m].Payload = wire'[Len(wire')].payload
                     /\ tcpRTCPFrame'[m] # tcpRTCPFrame[m] =>
                           /\ tcpRTPFrame'[m] = tcpRTPFrame[m]
                           /\ tcpRTCPFrame'[m].Payload = wire'[Len(wire')].payload]_vars

\* C20 witness: over TCP an RTP write and an RTCP write, made by two calls,
\* were sent on the RTP channel and on the RTCP channel of their medias
C20_Witness ==
    /\ setuppedTransport = "TCP"
    /\ \E i, j \in 1 .. Len(wire) :
          /\ i < j
          /\ returned[wire[i].id].op = "writePacketRTP"
          /\ wire[i].to = <<"channel", tcpChannel(wire[i].m)>>
          /\ returned[wire[j].id].op = "writePacketRTCP"
          /\ wire[j].to = <<"channel", tcpChannel(wire[j].m) + 1>>
          /\ tcpRTCPFrame[wire[j].m].Payload = wire[j].payload

====
